---- MODULE Spec2Model ----
(***************************************************************************)
(* Model of the wallet relationship investigator (src/index.js): the       *)
(* process-wide lookup cache, the two transfer-history fetchers, the       *)
(* bidirectional frontier search of the check-relationship handler and     *)
(* reconstructPath.                                                        *)
(*                                                                         *)
(* One action is one run of the handler between two suspension points      *)
(* (await): the code between two awaits runs without interleaving.  The    *)
(* page loop of a fetch touches only locals of the fetch, so a whole fetch *)
(* (all its pages, the cache write that follows and the neighbour loop     *)
(* that consumes the result) is one action whose input is the page on      *)
(* which the provider fails, if any.                                       *)
(***************************************************************************)
EXTENDS Integers, Sequences, FiniteSets, TLC

\* ------------------------------------------------------------------ bounds
\* Largest hop budget a request asks for.
MaxHops == 3
\* Largest number of transfers on the ledgers.
MaxTransfers == 4
\* Number of check-relationship requests served by the process.
MaxRequests == 2
\* Rows the provider returns per page.  The code asks for 100 rows a page
\* (and tests length < 100); the model scales the page down so that a
\* short page, a second page and a failure on a later page all happen.
PageSize == 2
\* Largest number of transfers on the ledgers of the server specification.
MaxServerTransfers == 2

\* ------------------------------------------------------- program constants
\* fetchSolanaTransfers: maxPages.
SolMaxPages == 10
\* getCachedTransfers, ETH branch: for (page = 1; page <= 2; page++).
EthMaxPages == 2
\* parseInt(maxHops) || 2.
DefaultHops == 2

NULL == "null"

\* ---------------------------------------------------------------- addresses
\* Account names on the Ethereum ledger (as the provider spells them) and on
\* the Solana ledger.
EthNodes == {"a", "b", "x", "z"}
SolNodes == {"S", "T"}
Nodes == EthNodes \cup SolNodes

\* Address strings a request may carry: "A" is a mixed-case spelling of the
\* Ethereum account "a", "S" is a Solana address.
AddrAInputs == {"A", "S"}
AddrBInputs == {"A", "b"}

\* A request field that is missing (JavaScript's undefined), and a string that
\* is an address of neither chain.
undefined == "undefined"
Invalid == "?"

\* What any client may send: the addresses above, an invalid one, none.
AnyAddrA == AddrAInputs \cup {Invalid, undefined}
AnyAddrB == AddrBInputs \cup {Invalid, undefined}

\* String.prototype.toLowerCase on the strings of the model.
toLowerCase(s) ==
    CASE s = "A" -> "a"
      [] s = "B" -> "b"
      [] s = "X" -> "x"
      [] s = "Z" -> "z"
      [] s = "S" -> "s"
      [] s = "T" -> "t"
      [] OTHER -> s

\* WAValidator.validate(addr, 'sol'): the external validator's answer.
IsSolAddress(addr) == addr \in SolNodes

\* identifyWallet(addr): everything that is not a Solana address is ETH.
identifyWallet(addr) ==
    IF IsSolAddress(addr)
    THEN [chain |-> "SOL", txBase |-> "https://solscan.io/tx/"]
    ELSE [chain |-> "ETH", txBase |-> "https://etherscan.io/tx/"]

\* -------------------------------------------------------------- the ledgers
\* Every possible transfer between two different accounts of one ledger, in
\* a fixed order; a transfer's hash is its place in this list.
NodeSeq == <<"a", "b", "x", "z", "S", "T">>
NumNodes == Len(NodeSeq)

SameLedger(f, t) == (f \in SolNodes) <=> (t \in SolNodes)

AllPairs ==
    [i \in 1..(NumNodes * NumNodes) |->
        [from |-> NodeSeq[((i - 1) \div NumNodes) + 1],
         to   |-> NodeSeq[((i - 1) % NumNodes) + 1],
         hash |-> i]]

IsTransfer(t) == t.from # t.to /\ SameLedger(t.from, t.to)

Reverse(s) == [i \in 1..Len(s) |-> s[Len(s) + 1 - i]]

\* The ledgers a behaviour may start from: at most MaxTransfers of the
\* possible transfers of one of the two ledgers, listed in either order.
Ledgers ==
    LET all == SelectSeq(AllPairs, IsTransfer)
        hashes == {all[i].hash : i \in 1..Len(all)}
        pick(S) == SelectSeq(all, LAMBDA t : t.hash \in S)
        oneLedger(q) == \A i, j \in 1..Len(q) : SameLedger(q[i].from, q[j].from)
    IN  UNION {{pick(S), Reverse(pick(S))} :
               S \in {T \in SUBSET hashes :
                         Cardinality(T) <= MaxTransfers /\ oneLedger(pick(T))}}

\* ------------------------------------------------------------- JS Map model
\* A Map is the sequence of its entries in insertion order; set() on a key
\* already present replaces the value in place.
MapHas(m, k) == \E i \in 1..Len(m) : m[i].key = k

MapSet(m, k, v) ==
    IF MapHas(m, k)
    THEN [i \in 1..Len(m) |-> IF m[i].key = k THEN [key |-> k, val |-> v] ELSE m[i]]
    ELSE Append(m, [key |-> k, val |-> v])

MapGet(m, k) == m[CHOOSE i \in 1..Len(m) : m[i].key = k].val

Min(a, b) == IF a < b THEN a ELSE b

\* One page of the provider's rows.
PageOf(rows, page) ==
    SubSeq(rows, (page - 1) * PageSize + 1, Min(Len(rows), page * PageSize))

\* ------------------------------------------------------- the Transfer Source
OnSolana(t) == t.from \in SolNodes

\* What the Helius endpoint lists for an address: the Solana transfers it
\* takes part in (addresses compared as they are).
SolanaRows(led, address) ==
    SelectSeq(led, LAMBDA t : OnSolana(t) /\ (t.from = address \/ t.to = address))

\* What the Etherscan endpoint lists for an address: the Ethereum transfers
\* it takes part in (addresses compared without case).
EtherscanRows(led, addrLower) ==
    SelectSeq(led, LAMBDA t : ~OnSolana(t)
                  /\ (toLowerCase(t.from) = addrLower \/ toLowerCase(t.to) = addrLower))

\* data.forEach of fetchSolanaTransfers: one transfer per transaction.
RECURSIVE SolanaForEach(_, _, _, _)
SolanaForEach(connections, data, i, address) ==
    IF i > Len(data) THEN connections
    ELSE LET t == data[i]
             isSender == t.from = address
             other == IF isSender THEN t.to ELSE t.from
             next == IF other # NULL /\ other # address
                     THEN MapSet(connections, other,
                                 [tx |-> t.hash,
                                  role |-> IF isSender THEN "sent_to" ELSE "received_from"])
                     ELSE connections
         IN  SolanaForEach(next, data, i + 1, address)

\* The page loop of fetchSolanaTransfers from page `page` on; the provider
\* fails on page failPage (0: on none).  The result is the Map built and the
\* number of provider calls made.
RECURSIVE SolanaPages(_, _, _, _, _, _)
SolanaPages(rows, address, page, failPage, connections, n) ==
    IF page > SolMaxPages THEN [connections |-> connections, calls |-> n]
    ELSE IF page = failPage THEN [connections |-> connections, calls |-> n + 1]
    ELSE LET data == PageOf(rows, page)
         IN  IF Len(data) = 0 THEN [connections |-> connections, calls |-> n + 1]
             ELSE LET next == SolanaForEach(connections, data, 1, address)
                  IN  IF Len(data) < PageSize
                      THEN [connections |-> next, calls |-> n + 1]
                      ELSE SolanaPages(rows, address, page + 1, failPage, next, n + 1)

fetchSolanaTransfers(led, address, failPage) ==
    SolanaPages(SolanaRows(led, address), address, 1, failPage, <<>>, 0)

\* data.result.forEach of the ETH branch of getCachedTransfers.
RECURSIVE EthForEach(_, _, _, _)
EthForEach(connections, data, i, addrLower) ==
    IF i > Len(data) THEN connections
    ELSE LET t == data[i]
             isSender == toLowerCase(t.from) = addrLower
             other == toLowerCase(IF isSender THEN t.to ELSE t.from)
             next == IF other # addrLower
                     THEN MapSet(connections, other,
                                 [tx |-> t.hash,
                                  role |-> IF isSender THEN "sent_to" ELSE "received_from"])
                     ELSE connections
         IN  EthForEach(next, data, i + 1, addrLower)

RECURSIVE EthPages(_, _, _, _, _, _)
EthPages(rows, addrLower, page, failPage, connections, n) ==
    IF page > EthMaxPages THEN [connections |-> connections, calls |-> n]
    ELSE IF page = failPage THEN [connections |-> connections, calls |-> n + 1]
    ELSE LET data == PageOf(rows, page)
         IN  IF Len(data) = 0 THEN [connections |-> connections, calls |-> n + 1]
             ELSE LET next == EthForEach(connections, data, 1, addrLower)
                  IN  IF Len(data) < PageSize
                      THEN [connections |-> next, calls |-> n + 1]
                      ELSE EthPages(rows, addrLower, page + 1, failPage, next, n + 1)

fetchEthTransfers(led, address, failPage) ==
    LET addrLower == toLowerCase(address)
    IN  EthPages(EtherscanRows(led, addrLower), addrLower, 1, failPage, <<>>, 0)

\* Mutant of FetchTransfers: a fetch whose provider failed hands back an
\* empty Map instead of what its earlier pages gathered.
FetchTransfersAllOrNothing(led, address, chain, failPage) ==
    LET r == IF chain = "SOL" THEN fetchSolanaTransfers(led, address, failPage)
             ELSE fetchEthTransfers(led, address, failPage)
    IN  IF failPage # 0 /\ r.calls = failPage
        THEN [connections |-> <<>>, calls |-> r.calls]
        ELSE r

\* The miss path of getCachedTransfers: the fetch of the request's chain.
FetchTransfers(led, address, chain, failPage) ==
    IF chain = "SOL" THEN fetchSolanaTransfers(led, address, failPage)
    ELSE fetchEthTransfers(led, address, failPage)

MaxPagesOf(chain) == IF chain = "SOL" THEN SolMaxPages ELSE EthMaxPages

\* The catch clause of the page loop ran: the loop asked for page failPage,
\* which is the last call it made.
Failed(r, failPage) == failPage # 0 /\ r.calls = failPage

\* ------------------------------------------------------------------- state
VARIABLES
    ledger,        \* the transfers the two providers know (fixed)
    txCache,       \* const txCache = new Map(): address -> connections Map
    pc,            \* where the handler stands: idle, lookup, fetch, done
    addrA, addrB, maxHops,   \* the request as received
    infoA,         \* identifyWallet(addrA)
    hops,          \* parseInt(maxHops) || 2
    visitedA, visitedB, queueA, queueB, meetingPoint, spamNotes,
    step, currentQueue, nextQueue, idx,   \* the two loops' positions
    events,        \* conclusion events emitted for the current request
    errors,        \* error events emitted for the current request
    nfail,         \* provider failures caught during the current request
    peer,          \* the handler of a second connection, at its first lookup
    calls,         \* provider calls (axios.get) made by the current request
    nreq,          \* requests received so far
    prev           \* what the previous request emitted

vars == <<ledger, txCache, pc, addrA, addrB, maxHops, infoA, hops, visitedA,
          visitedB, queueA, queueB, meetingPoint, spamNotes, step,
          currentQueue, nextQueue, idx, events, errors, nfail, peer, calls,
          nreq, prev>>

\* ------------------------------------------------------------ request input
\* maxHops as parseInt reads it: an integer, or NaN (maxHops is missing or
\* is text that starts with no number).
HopInputs ==
    {[kind |-> "int", n |-> i] : i \in (0 - 1)..MaxHops} \cup {[kind |-> "NaN", n |-> 0]}

\* parseInt(maxHops) || 2: NaN and 0 are falsy.
HopsOf(h) == IF h.kind # "int" \/ h.n = 0 THEN DefaultHops ELSE h.n

\* Mutant of StartOf: the address is used as it is spelt, on either chain.
StartOfAsSpelt(chain, addr) == addr

\* Case sensitivity logic: startA, startB.
StartOf(chain, addr) == IF chain = "SOL" THEN addr ELSE toLowerCase(addr)

\* shorten(addr): every address string of the model is shorter than 15
\* characters, for which shorten returns the address itself.
shorten(addr) == addr

\* ------------------------------------------------------------ the step loop
\* Mutant of currentSide: no alternation, side A expands at every step.
currentSideAlwaysA(s) == "A"

currentSide(s) == IF s % 2 # 0 THEN "A" ELSE "B"

\* Mutant of IsSpam: || where the code has &&.
IsSpamEither(dataA, dataB) == dataA.role = "received_from" \/ dataB.role = "received_from"

\* dataA.role === 'received_from' && dataB.role === 'received_from'
IsSpam(dataA, dataB) == dataA.role = "received_from" /\ dataB.role = "received_from"

\* The record written for a newly discovered neighbour.
VisitedRecord(curr, info) == [parent |-> curr, tx |-> info.tx, role |-> info.role]

\* Mutant of NeighborLoop: only the side's seed is passed over, any other
\* neighbour met again is recorded again (the last discovery wins).
RECURSIVE NeighborLoopOverwrite(_, _, _, _)
NeighborLoopOverwrite(L, curr, neighbors, i) ==
    IF i > Len(neighbors) THEN L
    ELSE
      LET side == currentSide(L.step)
          myVisited == IF side = "A" THEN L.visitedA ELSE L.visitedB
          otherVisited == IF side = "A" THEN L.visitedB ELSE L.visitedA
          neighborKey == StartOf(L.chain, neighbors[i].key)
          info == neighbors[i].val
      IN
      IF neighborKey \in DOMAIN myVisited /\ myVisited[neighborKey].parent = NULL
      THEN NeighborLoopOverwrite(L, curr, neighbors, i + 1)
      ELSE
      LET mine == [k \in DOMAIN myVisited \cup {neighborKey} |->
                      IF k = neighborKey THEN VisitedRecord(curr, info) ELSE myVisited[k]]
          L1 == [L EXCEPT !.visitedA = IF side = "A" THEN mine ELSE @,
                          !.visitedB = IF side = "B" THEN mine ELSE @,
                          !.nextQueue = Append(@, neighborKey)]
      IN
        IF neighborKey \in DOMAIN otherVisited
        THEN
          LET dataA == IF side = "A" THEN mine[neighborKey] ELSE otherVisited[neighborKey]
              dataB == IF side = "B" THEN mine[neighborKey] ELSE otherVisited[neighborKey]
          IN  IF IsSpam(dataA, dataB)
              THEN NeighborLoopOverwrite(
                     [L1 EXCEPT !.spamNotes =
                         Append(@, [address |-> neighborKey, txA |-> dataA.tx, txB |-> dataB.tx])],
                     curr, neighbors, i + 1)
              ELSE [L1 EXCEPT !.meetingPoint = neighborKey]
        ELSE NeighborLoopOverwrite(L1, curr, neighbors, i + 1)

\* for (let [neighbor, info] of neighbors), from entry i on, over the
\* handler's locals L; stops at the entry that sets the meeting point.
RECURSIVE NeighborLoop(_, _, _, _)
NeighborLoop(L, curr, neighbors, i) ==
    IF i > Len(neighbors) THEN L
    ELSE
      LET side == currentSide(L.step)
          myVisited == IF side = "A" THEN L.visitedA ELSE L.visitedB
          otherVisited == IF side = "A" THEN L.visitedB ELSE L.visitedA
          neighborKey == StartOf(L.chain, neighbors[i].key)
          info == neighbors[i].val
      IN
        IF neighborKey \in DOMAIN myVisited
        THEN NeighborLoop(L, curr, neighbors, i + 1)
        ELSE
          LET mine == myVisited @@ (neighborKey :> VisitedRecord(curr, info))
              L1 == [L EXCEPT !.visitedA = IF side = "A" THEN mine ELSE @,
                              !.visitedB = IF side = "B" THEN mine ELSE @,
                              !.nextQueue = Append(@, neighborKey)]
          IN
            IF neighborKey \in DOMAIN otherVisited
            THEN
              LET dataA == IF side = "A" THEN mine[neighborKey] ELSE otherVisited[neighborKey]
                  dataB == IF side = "B" THEN mine[neighborKey] ELSE otherVisited[neighborKey]
              IN  IF IsSpam(dataA, dataB)
                  THEN NeighborLoop(
                         [L1 EXCEPT !.spamNotes =
                             Append(@, [address |-> neighborKey, txA |-> dataA.tx, txB |-> dataB.tx])],
                         curr, neighbors, i + 1)
                  ELSE [L1 EXCEPT !.meetingPoint = neighborKey]
            ELSE NeighborLoop(L1, curr, neighbors, i + 1)

\* The loop control around one frontier address: the end of a step (the
\* frontier is replaced, the loop breaks on a meeting point or on two empty
\* frontiers) and the start of the next one.  A step whose frontier is empty
\* makes no lookup and runs through here.
RECURSIVE BeginStep(_)
\* Mutant of EndStep: the step loop does not break on a meeting point.
EndStepNoBreak(L) ==
    LET L1 == [L EXCEPT !.queueA = IF currentSide(L.step) = "A" THEN L.nextQueue ELSE @,
                        !.queueB = IF currentSide(L.step) = "B" THEN L.nextQueue ELSE @]
    IN  IF Len(L1.queueA) = 0 /\ Len(L1.queueB) = 0
        THEN [L1 EXCEPT !.running = FALSE]
        ELSE BeginStep([L1 EXCEPT !.step = @ + 1])

\* Mutant of EndStep: the two assignments swapped, the new frontier goes to
\* the side that did not expand.
EndStepSwapped(L) ==
    LET L1 == [L EXCEPT !.queueA = IF currentSide(L.step) = "B" THEN L.nextQueue ELSE @,
                        !.queueB = IF currentSide(L.step) = "A" THEN L.nextQueue ELSE @]
    IN  IF L1.meetingPoint # NULL \/ (Len(L1.queueA) = 0 /\ Len(L1.queueB) = 0)
        THEN [L1 EXCEPT !.running = FALSE]
        ELSE BeginStep([L1 EXCEPT !.step = @ + 1])

EndStep(L) ==
    LET L1 == [L EXCEPT !.queueA = IF currentSide(L.step) = "A" THEN L.nextQueue ELSE @,
                        !.queueB = IF currentSide(L.step) = "B" THEN L.nextQueue ELSE @]
    IN  IF L1.meetingPoint # NULL \/ (Len(L1.queueA) = 0 /\ Len(L1.queueB) = 0)
        THEN [L1 EXCEPT !.running = FALSE]
        ELSE BeginStep([L1 EXCEPT !.step = @ + 1])

\* Mutant of BeginStep: the step loop runs one step past the budget.
BeginStepOneMore(L) ==
    IF L.step > L.hops + 1 THEN [L EXCEPT !.running = FALSE]
    ELSE LET L1 == [L EXCEPT !.currentQueue =
                                 IF currentSide(L.step) = "A" THEN L.queueA ELSE L.queueB,
                             !.nextQueue = <<>>,
                             !.idx = 1]
         IN  IF Len(L1.currentQueue) = 0 THEN EndStep(L1) ELSE L1

BeginStep(L) ==
    IF L.step > L.hops THEN [L EXCEPT !.running = FALSE]
    ELSE LET L1 == [L EXCEPT !.currentQueue =
                                 IF currentSide(L.step) = "A" THEN L.queueA ELSE L.queueB,
                             !.nextQueue = <<>>,
                             !.idx = 1]
         IN  IF Len(L1.currentQueue) = 0 THEN EndStep(L1) ELSE L1

\* Mutant of AfterNeighbors: no if (meetingPoint) break, the frontier loop
\* goes on to its next address.
AfterNeighborsNoBreak(L) ==
    IF L.idx = Len(L.currentQueue)
    THEN EndStep(L)
    ELSE [L EXCEPT !.idx = @ + 1]

\* After the neighbour loop of currentQueue[idx]: if (meetingPoint) break,
\* else the next frontier address, else the end of the step.
AfterNeighbors(L) ==
    IF L.meetingPoint # NULL \/ L.idx = Len(L.currentQueue)
    THEN EndStep(L)
    ELSE [L EXCEPT !.idx = @ + 1]

\* ---------------------------------------------------------- reconstructPath
\* Mutant of PathStep: the orientation rule inverted.
PathStepInverted(curr, rec, base) ==
    LET sender == IF rec.role = "sent_to" THEN curr ELSE rec.parent
        receiver == IF rec.role = "sent_to" THEN rec.parent ELSE curr
    IN  [pair |-> <<shorten(sender), shorten(receiver)>>, url |-> <<base, rec.tx>>]

PathStep(curr, rec, base) ==
    LET sender == IF rec.role = "sent_to" THEN rec.parent ELSE curr
        receiver == IF rec.role = "sent_to" THEN curr ELSE rec.parent
    IN  [pair |-> <<shorten(sender), shorten(receiver)>>, url |-> <<base, rec.tx>>]

\* Mutant of TraceA: push where the code has unshift.
RECURSIVE TraceAPush(_, _, _, _)
TraceAPush(vA, c, base, path) ==
    IF c \notin DOMAIN vA \/ vA[c].parent = NULL THEN path
    ELSE TraceAPush(vA, vA[c].parent, base, Append(path, PathStep(c, vA[c], base)))

\* Trace back from middle to Source A: path.unshift.
RECURSIVE TraceA(_, _, _, _)
TraceA(vA, curr, base, path) ==
    IF curr \notin DOMAIN vA \/ vA[curr].parent = NULL THEN path
    ELSE TraceA(vA, vA[curr].parent, base, <<PathStep(curr, vA[curr], base)>> \o path)

\* Trace from middle to Target B: path.push.
RECURSIVE TraceB(_, _, _, _)
TraceB(vB, curr, base, path) ==
    IF curr \notin DOMAIN vB \/ vB[curr].parent = NULL THEN path
    ELSE TraceB(vB, vB[curr].parent, base, Append(path, PathStep(curr, vB[curr], base)))

reconstructPath(vA, vB, middle, base) ==
    TraceB(vB, middle, base, TraceA(vA, middle, base, <<>>))

\* --------------------------------------------------------------- conclusion
formatSpam(notes, base) ==
    [i \in 1..Len(notes) |->
        [address |-> shorten(notes[i].address),
         urlA |-> <<base, notes[i].txA>>,
         urlB |-> <<base, notes[i].txB>>]]

\* The conclusion event of a finished search.
Conclusion(L, base) ==
    IF L.meetingPoint # NULL
    THEN LET path == reconstructPath(L.visitedA, L.visitedB, L.meetingPoint, base)
         IN  [found |-> TRUE, hopCount |-> Len(path), evidence |-> path,
              spamNotes |-> formatSpam(L.spamNotes, base)]
    ELSE [found |-> FALSE, hopCount |-> 0, evidence |-> <<>>,
          spamNotes |-> formatSpam(L.spamNotes, base)]

\* ------------------------------------------------------------------ actions
\* The second handler before its request.
PeerIdle ==
    [pc |-> "idle", address |-> NULL, chain |-> NULL, page |-> 0,
     connections |-> <<>>, got |-> <<>>]

Init ==
    /\ ledger \in Ledgers
    /\ txCache = <<>>
    /\ pc = "idle"
    /\ addrA = NULL /\ addrB = NULL
    /\ maxHops = [kind |-> "NaN", n |-> 0]
    /\ infoA = identifyWallet(NULL)
    /\ hops = 0
    /\ visitedA = <<>> /\ visitedB = <<>>
    /\ queueA = <<>> /\ queueB = <<>>
    /\ meetingPoint = NULL
    /\ spamNotes = <<>>
    /\ step = 0
    /\ currentQueue = <<>> /\ nextQueue = <<>>
    /\ idx = 0
    /\ events = <<>>
    /\ errors = <<>>
    /\ nfail = 0
    /\ peer = PeerIdle
    /\ calls = 0
    /\ nreq = 0
    /\ prev = <<>>

\* The handler's locals as one value.
Locals ==
    [chain |-> infoA.chain, hops |-> hops, visitedA |-> visitedA,
     visitedB |-> visitedB, queueA |-> queueA, queueB |-> queueB,
     meetingPoint |-> meetingPoint, spamNotes |-> spamNotes, step |-> step,
     currentQueue |-> currentQueue, nextQueue |-> nextQueue, idx |-> idx,
     running |-> TRUE]

\* The handler runs on with locals L: to its next lookup, or out of the step
\* loop to the conclusion event.
Continue(L, base) ==
    /\ visitedA' = L.visitedA
    /\ visitedB' = L.visitedB
    /\ queueA' = L.queueA
    /\ queueB' = L.queueB
    /\ meetingPoint' = L.meetingPoint
    /\ spamNotes' = L.spamNotes
    /\ step' = L.step
    /\ currentQueue' = L.currentQueue
    /\ nextQueue' = L.nextQueue
    /\ idx' = L.idx
    /\ IF L.running
       THEN pc' = "lookup" /\ events' = events
       ELSE pc' = "done" /\ events' = Append(events, Conclusion(L, base))

\* addrA.toLowerCase() and addrB.toLowerCase() of the case sensitivity
\* logic throw a TypeError on a missing address; on Solana neither is called.
Throws(chain, a, b) == chain = "ETH" /\ (a = undefined \/ b = undefined)

\* socket.on('check-relationship') for the arguments a, b, h: up to the first
\* lookup, or to the catch clause that emits the error event.
Serve(a, b, h) ==
    LET info == identifyWallet(a)
        startA == StartOf(info.chain, a)
        startB == StartOf(info.chain, b)
        L == [chain |-> info.chain, hops |-> HopsOf(h),
              visitedA |-> (startA :> [parent |-> NULL, tx |-> NULL, role |-> NULL]),
              visitedB |-> (startB :> [parent |-> NULL, tx |-> NULL, role |-> NULL]),
              queueA |-> <<startA>>, queueB |-> <<startB>>,
              meetingPoint |-> NULL, spamNotes |-> <<>>, step |-> 1,
              currentQueue |-> <<>>, nextQueue |-> <<>>, idx |-> 0,
              running |-> TRUE]
    IN  /\ addrA' = a /\ addrB' = b /\ maxHops' = h
        /\ infoA' = info
        /\ hops' = HopsOf(h)
        /\ prev' = events
        /\ nreq' = nreq + 1
        /\ calls' = 0
        /\ nfail' = 0
        /\ IF Throws(info.chain, a, b)
           THEN /\ visitedA' = <<>> /\ visitedB' = <<>>
                /\ queueA' = <<>> /\ queueB' = <<>>
                /\ meetingPoint' = NULL
                /\ spamNotes' = <<>>
                /\ step' = 0
                /\ currentQueue' = <<>> /\ nextQueue' = <<>>
                /\ idx' = 0
                /\ pc' = "failed"
                /\ events' = <<>>
                /\ errors' = <<"TypeError">>
           ELSE LET R == BeginStep(L)
                IN  /\ visitedA' = R.visitedA /\ visitedB' = R.visitedB
                    /\ queueA' = R.queueA /\ queueB' = R.queueB
                    /\ meetingPoint' = R.meetingPoint
                    /\ spamNotes' = R.spamNotes
                    /\ step' = R.step
                    /\ currentQueue' = R.currentQueue
                    /\ nextQueue' = R.nextQueue
                    /\ idx' = R.idx
                    /\ errors' = <<>>
                    /\ IF R.running
                       THEN pc' = "lookup" /\ events' = <<>>
                       ELSE pc' = "done" /\ events' = <<Conclusion(R, info.txBase)>>

\* A request with well-formed addresses.  A request that follows a finished
\* one repeats its arguments.
Request ==
    /\ nreq < MaxRequests
    /\ pc \in {"idle", "done"}
    /\ \E a \in AddrAInputs, b \in AddrBInputs, h \in HopInputs :
        /\ pc = "done" => (a = addrA /\ b = addrB /\ h = maxHops)
        /\ Serve(a, b, h)
    /\ UNCHANGED <<ledger, txCache, peer>>

\* The frontier address being expanded.
curr == currentQueue[idx]

\* getCachedTransfers, cache hit, and the neighbour loop on what it returns.
LookupHit ==
    /\ pc = "lookup"
    /\ curr \in DOMAIN txCache
    /\ Continue(AfterNeighbors(NeighborLoop(Locals, curr, txCache[curr], 1)), infoA.txBase)
    /\ UNCHANGED <<ledger, txCache, addrA, addrB, maxHops, infoA, hops, errors,
                   nfail, peer, calls, nreq, prev>>

\* getCachedTransfers, cache miss: the fetch starts and the handler waits.
LookupMiss ==
    /\ pc = "lookup"
    /\ curr \notin DOMAIN txCache
    /\ pc' = "fetch"
    /\ UNCHANGED <<ledger, txCache, addrA, addrB, maxHops, infoA, hops, visitedA,
                   visitedB, queueA, queueB, meetingPoint, spamNotes, step,
                   currentQueue, nextQueue, idx, events, errors, nfail, peer,
                   calls, nreq, prev>>

\* Mutant of CacheSet: an empty result is not stored.
CacheSetNonEmpty(cache, address, connections) ==
    IF connections = <<>> THEN cache
    ELSE [k \in DOMAIN cache \cup {address} |->
            IF k = address THEN connections ELSE cache[k]]

\* txCache.set(address, connections)
CacheSet(cache, address, connections) ==
    [k \in DOMAIN cache \cup {address} |->
        IF k = address THEN connections ELSE cache[k]]

\* Mutant of FetchReturn: the page loop has no catch clause, a provider
\* failure reaches the handler's own catch and ends the request in an error.
FetchReturnThrows ==
    /\ pc = "fetch"
    /\ \E failPage \in 0..MaxPagesOf(infoA.chain) :
        LET r == FetchTransfers(ledger, curr, infoA.chain, failPage)
        IN  /\ calls' = calls + r.calls
            /\ nfail' = nfail + (IF Failed(r, failPage) THEN 1 ELSE 0)
            /\ IF Failed(r, failPage)
               THEN /\ pc' = "failed"
                    /\ errors' = Append(errors, "AxiosError")
                    /\ UNCHANGED <<txCache, visitedA, visitedB, queueA, queueB,
                                   meetingPoint, spamNotes, step, currentQueue,
                                   nextQueue, idx, events>>
               ELSE /\ txCache' = CacheSet(txCache, curr, r.connections)
                    /\ errors' = errors
                    /\ Continue(AfterNeighbors(NeighborLoop(Locals, curr, r.connections, 1)),
                                infoA.txBase)
    /\ UNCHANGED <<ledger, addrA, addrB, maxHops, infoA, hops, peer, nreq, prev>>

\* The fetch ends (the provider failed on page failPage, or on none): the
\* result is cached and returned, and the neighbour loop runs on it.
FetchReturn ==
    /\ pc = "fetch"
    /\ \E failPage \in 0..MaxPagesOf(infoA.chain) :
        LET r == FetchTransfers(ledger, curr, infoA.chain, failPage)
        IN  /\ txCache' = CacheSet(txCache, curr, r.connections)
            /\ calls' = calls + r.calls
            /\ nfail' = nfail + (IF Failed(r, failPage) THEN 1 ELSE 0)
            /\ Continue(AfterNeighbors(NeighborLoop(Locals, curr, r.connections, 1)),
                        infoA.txBase)
    /\ UNCHANGED <<ledger, addrA, addrB, maxHops, infoA, hops, errors, peer, nreq,
                   prev>>

Next == Request \/ LookupHit \/ LookupMiss \/ FetchReturn

Spec == Init /\ [][Next]_vars

\* ------------------------------------------------------ any client's input
\* A request with whatever a client sends, after the previous one has ended,
\* with a conclusion or with an error; a later request repeats the first.
RequestAny ==
    /\ nreq < MaxRequests
    /\ pc \in {"idle", "done", "failed"}
    /\ \E a \in AnyAddrA, b \in AnyAddrB, h \in HopInputs :
        /\ pc # "idle" => (a = addrA /\ b = addrB /\ h = maxHops)
        /\ Serve(a, b, h)
    /\ UNCHANGED <<ledger, txCache, peer>>

\* ------------------------------------------------------ a second handler
\* The variables of the first connection's handler and the ledger.
handler ==
    <<ledger, pc, addrA, addrB, maxHops, infoA, hops, visitedA, visitedB,
      queueA, queueB, meetingPoint, spamNotes, step, currentQueue, nextQueue,
      idx, events, errors, nfail, calls, nreq, prev>>

\* A second connection's request reaches the first lookup of its step 1,
\* getCachedTransfers(startA, infoA.chain): a hit returns the cached Map, a
\* miss starts the page loop.
PeerLookup ==
    /\ peer.pc = "idle"
    /\ \E a \in AddrAInputs :
        LET chain == identifyWallet(a).chain
            address == StartOf(chain, a)
        IN  peer' = IF address \in DOMAIN txCache
                    THEN [PeerIdle EXCEPT !.pc = "done", !.address = address,
                                          !.chain = chain, !.got = txCache[address]]
                    ELSE [PeerIdle EXCEPT !.pc = "fetch", !.address = address,
                                          !.chain = chain, !.page = 1]
    /\ UNCHANGED <<handler, txCache>>

\* The rows the provider of a chain lists for an address.
RowsOf(chain, address) ==
    IF chain = "SOL" THEN SolanaRows(ledger, address)
    ELSE EtherscanRows(ledger, toLowerCase(address))

\* data.forEach on one page, on either chain.
ForEachOf(chain, connections, data, address) ==
    IF chain = "SOL" THEN SolanaForEach(connections, data, 1, address)
    ELSE EthForEach(connections, data, 1, toLowerCase(address))

\* Mutant of PeerPage: the Map is put into the cache while the page loop
\* still fills it.
PeerPageWriteThrough ==
    /\ peer.pc = "fetch"
    /\ \E fails \in BOOLEAN :
        LET data == PageOf(RowsOf(peer.chain, peer.address), peer.page)
            next == IF fails THEN peer.connections
                    ELSE ForEachOf(peer.chain, peer.connections, data, peer.address)
            ends == \/ fails
                    \/ Len(data) < PageSize
                    \/ peer.page = MaxPagesOf(peer.chain)
        IN  /\ txCache' = CacheSet(txCache, peer.address, next)
            /\ IF ends
               THEN peer' = [peer EXCEPT !.pc = "done", !.connections = next, !.got = next]
               ELSE peer' = [peer EXCEPT !.page = @ + 1, !.connections = next]
    /\ UNCHANGED handler

\* One provider call of the second handler's page loop ends, with a failure
\* or with a page of rows; when the loop ends with it, the Map is put into
\* the cache and returned.
PeerPage ==
    /\ peer.pc = "fetch"
    /\ \E fails \in BOOLEAN :
        LET data == PageOf(RowsOf(peer.chain, peer.address), peer.page)
            next == IF fails THEN peer.connections
                    ELSE ForEachOf(peer.chain, peer.connections, data, peer.address)
            ends == \/ fails
                    \/ Len(data) < PageSize
                    \/ peer.page = MaxPagesOf(peer.chain)
        IN  IF ends
            THEN /\ txCache' = CacheSet(txCache, peer.address, next)
                 /\ peer' = [peer EXCEPT !.pc = "done", !.connections = next, !.got = next]
            ELSE /\ txCache' = txCache
                 /\ peer' = [peer EXCEPT !.page = @ + 1, !.connections = next]
    /\ UNCHANGED handler

\* ---------------------------------------------------- the server's ledgers
ServerInit == Init /\ Len(ledger) <= MaxServerTransfers

ServerNext == RequestAny \/ LookupHit \/ LookupMiss \/ FetchReturn

\* Where the handler stands, and a step of the handler as its position shows
\* it: LookupHit, LookupMiss and FetchReturn are the steps that move the
\* position of a handler that stands at a lookup or waits for a fetch, and
\* one of them can be taken wherever it stands there.
position == <<pc, step, idx>>

Advance ==
    /\ pc \in {"lookup", "fetch"}
    /\ pc' \in {"lookup", "fetch", "done"}
    /\ step' \in step..(MaxHops + 1)
    /\ idx' \in 0..NumNodes

\* The event loop runs a continuation that is ready, and every provider call
\* ends, with a reply or with a failure: the handler does not stand still.
ServerSpec ==
    /\ ServerInit
    /\ [][ServerNext]_vars
    /\ WF_position(Advance)

\* ------------------------------------------ two connections, one txCache
SharedNext ==
    Request \/ LookupHit \/ LookupMiss \/ FetchReturn \/ PeerLookup \/ PeerPage

\* Two handlers interleave at their awaits and share the cache.
SharedSpec == ServerInit /\ [][SharedNext]_vars

\* ------------------------------------------------------------- vocabulary
Range(q) == {q[i] : i \in 1..Len(q)}

Done == pc = "done"

\* The conclusion event of the finished request.
Last == events[Len(events)]

\* The two seeds in the form the search uses.
SeedA == StartOf(infoA.chain, addrA)
SeedB == StartOf(infoA.chain, addrB)

\* Addresses both sides have a record for.
BothVisited == DOMAIN visitedA \cap DOMAIN visitedB

BothReceived(k) ==
    visitedA[k].role = "received_from" /\ visitedB[k].role = "received_from"

NotesFor(k) == {i \in 1..Len(spamNotes) : spamNotes[i].address = k}

\* Every cached result is the whole transfer set of its address, as the
\* request's provider lists it: no lookup failed, and none was cut short by
\* the page limit.
CompleteLookup(k) == FetchTransfers(ledger, k, infoA.chain, 0).connections
CacheComplete ==
    \A k \in DOMAIN txCache :
        /\ txCache[k] = CompleteLookup(k)
        /\ LET rows == IF infoA.chain = "SOL" THEN SolanaRows(ledger, k)
                       ELSE EtherscanRows(ledger, toLowerCase(k))
           IN  Len(rows) <= MaxPagesOf(infoA.chain) * PageSize

\* ---------------------------------------------------------------------- C1
\* C1: a collision of two received_from records never becomes the meeting
\* point.  In every state: an address is in a SpamNote exactly when both
\* sides hold a received_from record for it, it then has exactly one note,
\* carrying the two records' transactions, and it is not the meeting point.
C1_SpamState ==
    /\ \A k \in BothVisited : BothReceived(k) <=> Cardinality(NotesFor(k)) = 1
    /\ \A i \in 1..Len(spamNotes) :
        LET k == spamNotes[i].address
        IN  /\ k \in BothVisited
            /\ Cardinality(NotesFor(k)) = 1
            /\ spamNotes[i].txA = visitedA[k].tx
            /\ spamNotes[i].txB = visitedB[k].tx
            /\ k # meetingPoint
    /\ meetingPoint # NULL =>
        meetingPoint \in BothVisited /\ ~BothReceived(meetingPoint)

\* and in every step of the handler that appends a SpamNote, the noted
\* address is in a frontier afterwards (it was enqueued), and if the search
\* ends in that step without a meeting point it is the hop budget that
\* ended it.
C1_SpamStep ==
    (Len(spamNotes') > Len(spamNotes) /\ pc # "done" /\ pc # "idle") =>
        /\ \A i \in (Len(spamNotes) + 1)..Len(spamNotes') :
              spamNotes'[i].address \in
                  Range(nextQueue') \cup Range(queueA') \cup Range(queueB')
        /\ (pc' = "done" /\ meetingPoint' = NULL) => step' > hops'

\* C1: the state property holds in every state and the step property in
\* every step: two received_from records never make a meeting point, they
\* make exactly one SpamNote and the search goes on.
C1_SpamNeverMeets == [](C1_SpamState) /\ [][C1_SpamStep]_vars

\* A search goes on after a SpamNote: the noted address waits in a frontier.
C1_Witness ==
    /\ pc = "lookup"
    /\ SeedA # SeedB
    /\ Len(spamNotes) = 1
    /\ meetingPoint = NULL
    /\ spamNotes[1].address \in BothVisited
    /\ spamNotes[1].address \in Range(queueA) \cup Range(queueB)

\* ------------------------------------------------------------- the ledger
\* The (from, to) pairs of the ledger's transfers.
LedgerPairs == {<<ledger[i].from, ledger[i].to>> : i \in 1..Len(ledger)}

\* ---------------------------------------------------------------------- C2
\* C2: when z sent to a and z sent to b are the only transfers and every
\* lookup returned them, a search with seeds a, b and any budget of 2 or more
\* steps concludes "not found" with exactly one SpamNote, for z.
C2_CommonSenderNotFound ==
    (/\ Done
     /\ LedgerPairs = {<<"z", "a">>, <<"z", "b">>}
     /\ SeedA = "a" /\ SeedB = "b"
     /\ hops >= 2
     /\ CacheComplete)
    => /\ ~Last.found
       /\ Last.evidence = <<>>
       /\ Len(Last.spamNotes) = 1
       /\ Last.spamNotes[1].address = "z"

\* ---------------------------------------------------------------------- C3
\* C3: a search whose two seeds are the same address ends at once, with the
\* seed as the meeting point, an empty evidence chain and no lookup made.
C3_IdenticalSeeds ==
    (Done /\ addrA = addrB /\ hops >= 1)
    => /\ Last.found
       /\ meetingPoint = SeedA
       /\ Last.evidence = <<>>
       /\ Last.hopCount = 0
       /\ DOMAIN txCache = {}

\* ---------------------------------------------------------------------- C9
\* C9: a hop budget that is zero, negative, missing or not a number makes the
\* search run with the default budget of 2 steps.
C9_DefaultBudget ==
    (pc # "idle" /\ (maxHops.kind = "NaN" \/ maxHops.n <= 0)) => hops = DefaultHops

\* ---------------------------------------------------------------------- C4
\* C4: a reported evidence chain is no longer than the hop budget of the
\* search, no longer than the step at which the meeting point was found, and
\* the hop count of the conclusion is the chain's length.
C4_ChainWithinBudget ==
    (Done /\ Last.found)
    => /\ Len(Last.evidence) <= hops
       /\ Len(Last.evidence) <= step
       /\ Last.hopCount = Len(Last.evidence)

\* A chain that uses the whole budget of three steps.
C4_Witness ==
    /\ Done /\ Last.found
    /\ SeedA # SeedB
    /\ hops = 3
    /\ Len(Last.evidence) = 3

\* ---------------------------------------------------------------------- C5
\* The undirected transfer graph the request's provider knows: the accounts
\* one transfer away from n.
OnChain(t) == (infoA.chain = "SOL") <=> OnSolana(t)

Adjacent(n) ==
    {StartOf(infoA.chain, ledger[i].to) :
        i \in {j \in 1..Len(ledger) :
                 OnChain(ledger[j]) /\ StartOf(infoA.chain, ledger[j].from) = n}}
    \cup
    {StartOf(infoA.chain, ledger[i].from) :
        i \in {j \in 1..Len(ledger) :
                 OnChain(ledger[j]) /\ StartOf(infoA.chain, ledger[j].to) = n}}

\* The accounts at the end of a walk of exactly k steps from seed A.
RECURSIVE WalkEnds(_)
WalkEnds(k) ==
    IF k = 0 THEN {SeedA}
    ELSE UNION {Adjacent(n) : n \in WalkEnds(k - 1)}

Transferred(sender, receiver, tx) ==
    \E i \in 1..Len(ledger) :
        /\ OnChain(ledger[i])
        /\ StartOf(infoA.chain, ledger[i].from) = sender
        /\ StartOf(infoA.chain, ledger[i].to) = receiver
        /\ ledger[i].hash = tx

\* What the orientation rule makes of the record of k in a visited map.
Oriented(v, k) ==
    IF v[k].role = "sent_to" THEN <<v[k].parent, k>> ELSE <<k, v[k].parent>>

NonSeeds(v) == {k \in DOMAIN v : v[k].parent # NULL}

\* C6: on either side a sent_to record reads parent -> node and a
\* received_from record reads node -> parent, and read so it is a transfer
\* the provider reported, in that direction, with the record's transaction;
\* every step of a reported evidence chain is such a reading of a record.
C6_SenderToReceiver ==
    /\ \A k \in NonSeeds(visitedA) :
          Transferred(Oriented(visitedA, k)[1], Oriented(visitedA, k)[2], visitedA[k].tx)
    /\ \A k \in NonSeeds(visitedB) :
          Transferred(Oriented(visitedB, k)[1], Oriented(visitedB, k)[2], visitedB[k].tx)
    /\ (Done /\ Last.found) =>
          \A i \in 1..Len(Last.evidence) :
              LET e == Last.evidence[i]
              IN  /\ Transferred(e.pair[1], e.pair[2], e.url[2])
                  /\ \/ \E k \in NonSeeds(visitedA) :
                           e.pair = Oriented(visitedA, k) /\ e.url[2] = visitedA[k].tx
                     \/ \E k \in NonSeeds(visitedB) :
                           e.pair = Oriented(visitedB, k) /\ e.url[2] = visitedB[k].tx

\* A chain through a meeting point that side A received from and side B
\* sent to.
C6_Witness ==
    /\ Done /\ Last.found
    /\ SeedA # SeedB
    /\ Len(Last.evidence) >= 2
    /\ visitedA[meetingPoint].role = "received_from"
    /\ visitedB[meetingPoint].role = "sent_to"

\* ---------------------------------------------------------------------- C7
\* The other end of an evidence step, seen from the address `at`.
OtherEnd(e, at) ==
    IF e.pair[1] = at THEN e.pair[2]
    ELSE IF e.pair[2] = at THEN e.pair[1]
    ELSE "broken"

\* The addresses a chain passes when read from `at`, steps i.. on.
RECURSIVE Passes(_, _, _)
Passes(ev, i, at) ==
    IF i > Len(ev) THEN <<at>>
    ELSE <<at>> \o Passes(ev, i + 1, OtherEnd(ev[i], at))

\* C7: a chain reported for two different seeds reads unbroken from seed A
\* to seed B: each step starts where the one before ended, the steps up to
\* the meeting point are side A's records, the steps after it side B's.
C7_UnbrokenChain ==
    (Done /\ Last.found /\ SeedA # SeedB)
    => LET ev == Last.evidence
           at == Passes(ev, 1, SeedA)
       IN  /\ Len(ev) >= 1
           /\ \A i \in 1..Len(at) : at[i] # "broken"
           /\ at[Len(at)] = SeedB
           /\ \E m \in 1..Len(at) :
                 /\ at[m] = meetingPoint
                 /\ \A i \in 1..(m - 1) :
                       /\ at[i + 1] \in NonSeeds(visitedA)
                       /\ visitedA[at[i + 1]].parent = at[i]
                       /\ ev[i].url[2] = visitedA[at[i + 1]].tx
                 /\ \A i \in m..Len(ev) :
                       /\ at[i] \in NonSeeds(visitedB)
                       /\ visitedB[at[i]].parent = at[i + 1]
                       /\ ev[i].url[2] = visitedB[at[i]].tx

\* A chain with two steps on side A and one on side B.
C7_Witness ==
    /\ Done /\ Last.found
    /\ SeedA # SeedB
    /\ Len(Last.evidence) = 3
    /\ visitedA[meetingPoint].parent # SeedA
    /\ visitedB[meetingPoint].parent = SeedB

\* ---------------------------------------------------------------------- C8
\* C8: when a sent to x and x sent to b are the only transfers and the
\* lookups returned them, a search with seeds a, b and a budget of 2 or more
\* steps reports meeting point x at step 2, the chain [a -> x, x -> b] and no
\* SpamNote.
C8_TwoHopExample ==
    (/\ Done
     /\ LedgerPairs = {<<"a", "x">>, <<"x", "b">>}
     /\ SeedA = "a" /\ SeedB = "b"
     /\ hops >= 2
     /\ CacheComplete)
    => /\ Last.found
       /\ meetingPoint = "x"
       /\ step = 2
       /\ Len(Last.evidence) = 2
       /\ Last.evidence[1].pair = <<"a", "x">>
       /\ Last.evidence[2].pair = <<"x", "b">>
       /\ Last.hopCount = 2
       /\ Last.spamNotes = <<>>

\* The example's search, finished, with a budget of three steps.
C8_Witness ==
    /\ Done
    /\ LedgerPairs = {<<"a", "x">>, <<"x", "b">>}
    /\ SeedA = "a" /\ SeedB = "b"
    /\ hops = 3
    /\ CacheComplete
    /\ Last.found

\* --------------------------------------------------------------------- C10
\* C10: a search repeated with the same addresses and budget after the first
\* has finished makes no provider call, every lookup being a cache hit, and
\* emits the conclusion the first one emitted.
C10_RepeatFromCache ==
    nreq >= 2 =>
        /\ calls = 0
        /\ pc # "fetch"
        /\ Done => events = prev

\* A repeated search that reported a connection although one of its
\* addresses is cached with the empty result of a failed fetch.
C10_Witness ==
    /\ nreq = 2
    /\ Done
    /\ Last.found
    /\ \E k \in DOMAIN txCache : txCache[k] = <<>> /\ CompleteLookup(k) # <<>>

\* --------------------------------------------------------------------- C11
\* A request has ended: with a conclusion, or with an error.
Ended == pc \in {"done", "failed"}

\* C11, in every state: a request in which a provider call failed has
\* emitted no error event and has not ended in one.
C11_NoErrorState == nfail > 0 => (errors = <<>> /\ pc # "failed")

\* C11, in every step in which a provider call fails: the failed lookup
\* leaves a result set in the cache, no error event is emitted, and unless
\* the result set held a meeting point the handler goes on to the next
\* address of the frontier.
C11_AbsorbStep ==
    nfail' > nfail =>
        /\ curr \in DOMAIN txCache'
        /\ errors' = <<>>
        /\ pc' \in {"lookup", "done"}
        /\ (pc' = "done") = (Len(events') = 1)
        /\ (meetingPoint' = NULL /\ idx < Len(currentQueue)) =>
              /\ pc' = "lookup"
              /\ step' = step
              /\ currentQueue' = currentQueue
              /\ idx' = idx + 1

\* C11: a provider failure on any page, for any address, on either chain
\* never makes an error event and never aborts the search, and the request
\* it happened in ends in exactly one conclusion event.
C11_FailureAbsorbed ==
    /\ [](C11_NoErrorState)
    /\ [][C11_AbsorbStep]_vars
    /\ ((nfail > 0) ~> (pc = "done" /\ Len(events) = 1 /\ errors = <<>>))

\* The lookup of the first of two frontier addresses failed and the handler
\* stands at the second.
C11_Witness ==
    /\ pc = "lookup"
    /\ SeedA # SeedB
    /\ nfail = 1
    /\ Len(currentQueue) = 2
    /\ idx = 2
    /\ txCache[currentQueue[1]] = <<>>
    /\ CompleteLookup(currentQueue[1]) # <<>>

\* --------------------------------------------------------------------- C12
\* A search is in its step loop.
Searching == pc \in {"lookup", "fetch"}

\* The iterations of the step loop a search has begun: when the loop ran out
\* of budget, step stands one past the last iteration.
Iterations == IF pc = "done" /\ step > hops THEN step - 1 ELSE step

\* C12, in every state: a request emits nothing before it ends and exactly
\* one terminal event when it ends, a conclusion or an error; a lookup is made
\* only in one of the first H iterations of the step loop, and a finished
\* search has begun at most H of them (none when H is below 1); and a search
\* that ends without a meeting point ran out of budget or of frontier and
\* concludes "not found" with an empty chain and the spam notes gathered.
C12_TerminalState ==
    /\ Searching => (events = <<>> /\ errors = <<>> /\ 1 <= step /\ step <= hops)
    /\ pc = "done" =>
          /\ Len(events) = 1 /\ errors = <<>>
          /\ Iterations <= hops \/ Iterations = 0
    /\ pc = "failed" => (Len(errors) = 1 /\ events = <<>>)
    /\ (pc = "done" /\ meetingPoint = NULL) =>
          /\ step > hops \/ (queueA = <<>> /\ queueB = <<>>)
          /\ ~Last.found
          /\ Last.evidence = <<>>
          /\ Len(Last.spamNotes) = Len(spamNotes)
          /\ \A i \in 1..Len(spamNotes) :
                /\ Last.spamNotes[i].address = shorten(spamNotes[i].address)
                /\ Last.spamNotes[i].urlA[2] = spamNotes[i].txA
                /\ Last.spamNotes[i].urlB[2] = spamNotes[i].txB

\* C12, in every step: an ended request emits nothing more.
C12_TerminalStep ==
    (Ended /\ nreq' = nreq) => (events' = events /\ errors' = errors /\ pc' = pc)

WellFormed(addr) == addr \in AddrAInputs \cup AddrBInputs

\* C13: a request with an address of neither chain (or with none) is
\* rejected before the search starts: it ends in a failure, with no visited
\* set seeded, no lookup made and no conclusion event.
C13_InvalidRejected ==
    (nreq > 0 /\ (~WellFormed(addrA) \/ ~WellFormed(addrB))) =>
        /\ pc = "failed"
        /\ events = <<>>
        /\ visitedA = <<>> /\ visitedB = <<>>
        /\ calls = 0
        /\ DOMAIN txCache = {}

\* --------------------------------------------------------------------- C14
\* Every key of the two visited sets and of the frontiers.
SearchKeys ==
    DOMAIN visitedA \cup DOMAIN visitedB \cup Range(queueA) \cup Range(queueB)
        \cup Range(currentQueue) \cup Range(nextQueue)

\* C14, in every state of a search on the case-insensitive chain: every key
\* of the visited sets and the frontiers is in lower case, and each seed, as
\* the request spelt it, is found under its lower-case form with the record
\* of a seed.
C14_CanonicalState ==
    (infoA.chain = "ETH" /\ nreq > 0 /\ pc # "failed") =>
        /\ \A k \in SearchKeys : toLowerCase(k) = k
        /\ toLowerCase(addrA) \in DOMAIN visitedA
        /\ visitedA[toLowerCase(addrA)].parent = NULL
        /\ toLowerCase(addrB) \in DOMAIN visitedB
        /\ visitedB[toLowerCase(addrB)].parent = NULL

\* C14, in every step of such a search: a neighbour that is a seed up to case
\* is a collision when the other side records it, and being a seed it makes
\* the meeting point.
C14_CanonicalStep ==
    (infoA.chain = "ETH" /\ Searching) =>
        /\ (toLowerCase(addrA) \notin DOMAIN visitedB
              /\ toLowerCase(addrA) \in DOMAIN visitedB')
           => meetingPoint' = toLowerCase(addrA)
        /\ (toLowerCase(addrB) \notin DOMAIN visitedA
              /\ toLowerCase(addrB) \in DOMAIN visitedA')
           => meetingPoint' = toLowerCase(addrB)

FinishedFetch(k, v) ==
    \E c \in {"ETH", "SOL"} : \E f \in 0..MaxPagesOf(c) :
        FetchTransfers(ledger, k, c, f).connections = v

\* C15, in every state: while a handler's page loop fills its Map, no entry
\* of the cache is that handler's doing, and what a finished lookup returned
\* is what the cache holds for its address or held when it returned.
C15_WholeState ==
    /\ peer.pc = "fetch" => peer.got = <<>>
    /\ peer.pc = "done" => peer.address \in DOMAIN txCache

\* C15, in every step: the cache changes for one address only, in the step
\* in which a handler's fetch of that address ends, and takes the Map that
\* fetch returns, the result of a whole page loop; a hit returns the Map the
\* cache holds.
C15_WholeStep ==
    /\ txCache' # txCache =>
          \E k \in DOMAIN txCache' :
              /\ txCache' = CacheSet(txCache, k, txCache'[k])
              /\ FinishedFetch(k, txCache'[k])
              /\ \/ pc = "fetch" /\ pc' # "fetch" /\ k = curr
                 \/ /\ peer.pc = "fetch" /\ peer'.pc = "done"
                    /\ k = peer.address
                    /\ peer'.got = txCache'[k]
    /\ (peer.pc = "idle" /\ peer'.pc = "done") =>
          (peer'.address \in DOMAIN txCache /\ peer'.got = txCache[peer'.address])
    /\ (peer.pc = "fetch" /\ peer'.pc = "fetch" /\ peer' # peer) =>
          (txCache' = txCache /\ peer'.page = peer.page + 1)

\* C15: however two searches interleave, getCachedTransfers stores and
\* returns only the Map of a fetch that has ended: a Map still being filled
\* is in no cache entry.
C15_NoPartialResult == [](C15_WholeState) /\ [][C15_WholeStep]_vars

\* Both handlers fetch the same address; the second has filled its Map from
\* the first page and the cache has no entry for the address yet.
C15_Witness ==
    /\ pc = "fetch"
    /\ peer.pc = "fetch"
    /\ peer.address = curr
    /\ peer.page = 2
    /\ peer.connections # <<>>
    /\ curr \notin DOMAIN txCache

\* --------------------------------------------------------------------- C16
\* C16: an entry of the cache is never removed and never replaced by another
\* value, also when two searches miss on its address while both fetch.
C16_EntryNeverReplaced ==
    [][\A k \in DOMAIN txCache : k \in DOMAIN txCache' /\ txCache'[k] = txCache[k]]_vars

\* --------------------------------------------------------------------- C17
\* Following parent links from k in the visited set v reaches the seed in at
\* most n steps.
RECURSIVE ReachesSeed(_, _, _, _)
ReachesSeed(v, seed, k, n) ==
    IF k = seed THEN TRUE
    ELSE IF n = 0 \/ k \notin DOMAIN v THEN FALSE
    ELSE ReachesSeed(v, seed, v[k].parent, n - 1)

\* The visited set v is a tree rooted at seed.
IsTree(v, seed) ==
    /\ seed \in DOMAIN v
    /\ v[seed] = [parent |-> NULL, tx |-> NULL, role |-> NULL]
    /\ \A k \in DOMAIN v \ {seed} :
          /\ v[k].parent \in DOMAIN v
          /\ v[k].parent # k
          /\ v[k].role \in {"sent_to", "received_from"}
          /\ ReachesSeed(v, seed, k, Cardinality(DOMAIN v))

\* C17, in every state of a search: each side's visited set is a tree rooted
\* at that side's seed, and no address in a frontier is its own parent.
C17_TreeState ==
    nreq > 0 =>
        /\ IsTree(visitedA, SeedA)
        /\ IsTree(visitedB, SeedB)
        /\ \A k \in Range(queueA) \cup Range(queueB) \cup Range(nextQueue) :
              /\ k \in DOMAIN visitedA \cup DOMAIN visitedB
              /\ k \in DOMAIN visitedA => visitedA[k].parent # k
              /\ k \in DOMAIN visitedB => visitedB[k].parent # k

\* C17, in every step of a search: a record, once written, stays as it is.
C17_TreeStep ==
    nreq' = nreq =>
        /\ \A k \in DOMAIN visitedA : k \in DOMAIN visitedA' /\ visitedA'[k] = visitedA[k]
        /\ \A k \in DOMAIN visitedB : k \in DOMAIN visitedB' /\ visitedB'[k] = visitedB[k]

\* C17: each side's visited set is a tree rooted at its seed, with no
\* self-loop, and the first record written for an address is the one kept.
C17_VisitedTree == [](C17_TreeState) /\ [][C17_TreeStep]_vars

\* Side A expanded an address that lists the seed it was found from, and
\* went on to a third level.
C17_Witness ==
    /\ nreq > 0
    /\ SeedA # SeedB
    /\ \E x \in DOMAIN visitedA \cap DOMAIN txCache :
          /\ visitedA[x].parent = SeedA
          /\ MapHas(txCache[x], SeedA)
          /\ \E y \in DOMAIN visitedA : visitedA[y].parent = x

\* --------------------------------------------------------------------- C18
\* The side whose turn a step is: A at the odd steps, B at the even ones.
Odd(n) == n % 2 = 1

\* C18, in every state of a running search: the frontier being expanded is
\* the frontier the active side had when the step began, its addresses are in
\* that side's visited set, and no address discovered during the step is in
\* it.
C18_TurnState ==
    Searching =>
        /\ idx \in 1..Len(currentQueue)
        /\ currentQueue = IF Odd(step) THEN queueA ELSE queueB
        /\ Range(currentQueue) \subseteq
              (IF Odd(step) THEN DOMAIN visitedA ELSE DOMAIN visitedB)
        /\ Range(nextQueue) \cap Range(currentQueue) = {}

\* C18, in every step of a running search: the side whose turn it is not
\* keeps its visited set and its frontier, the active side's frontier is
\* replaced only when the step ends, and a step is passed over only with an
\* empty frontier.
C18_TurnStep ==
    (Searching /\ nreq' = nreq) =>
        /\ Odd(step) => (visitedB' = visitedB /\ queueB' = queueB)
        /\ ~Odd(step) => (visitedA' = visitedA /\ queueA' = queueA)
        /\ (pc' # "done" /\ step' = step) =>
              (queueA' = queueA /\ queueB' = queueB /\ currentQueue' = currentQueue)
        /\ (pc' # "done" /\ step' # step) =>
              /\ step' > step
              /\ step' > step + 1 =>
                    (IF Odd(step) THEN queueB ELSE queueA) = <<>>

\* C18: the sides alternate strictly, odd steps for A and even steps for B,
\* a step touches only the active side, and what it discovers waits for that
\* side's next turn.
C18_StrictAlternation == [](C18_TurnState) /\ [][C18_TurnStep]_vars

\* Side A, at its second turn, has expanded the first of its two frontier
\* addresses, while the address side B discovered at step 2 waits.
C18_Witness ==
    /\ pc = "lookup"
    /\ SeedA # SeedB
    /\ step = 3
    /\ idx = 2
    /\ queueB # <<>>
    /\ Range(queueB) \subseteq DOMAIN visitedB \ {SeedB}
    /\ currentQueue[1] \in DOMAIN txCache

\* --------------------------------------------------------------------- C19
\* The place of the key k in the Map m (0: not a key of m).
IndexOf(m, k) ==
    IF MapHas(m, k) THEN CHOOSE i \in 1..Len(m) : m[i].key = k ELSE 0

\* The keys of the Map m after place i, as the search spells them.
KeysAfter(m, i) == {StartOf(infoA.chain, m[j].key) : j \in (i + 1)..Len(m)}

\* C19, in every state: a search with a meeting point has ended, with the
\* conclusion that reports it.
C19_StoppedState ==
    meetingPoint # NULL =>
        /\ pc = "done"
        /\ Last.found
        /\ meetingPoint \in BothVisited

\* C19, in the step that sets the meeting point: the step loop stands where
\* it stood (no later frontier address, no later step), the meeting point is
\* the last address recorded and enqueued, and no neighbour listed after it
\* is recorded or noted.
C19_StopStep ==
    (Searching /\ meetingPoint' # NULL) =>
        LET neighbors == txCache'[curr]
            at == IndexOf(neighbors, meetingPoint')
            rest == KeysAfter(neighbors, at)
            newA == DOMAIN visitedA' \ DOMAIN visitedA
            newB == DOMAIN visitedB' \ DOMAIN visitedB
        IN  /\ pc' = "done"
            /\ step' = step /\ idx' = idx /\ currentQueue' = currentQueue
            /\ at >= 1
            /\ nextQueue' # <<>> /\ nextQueue'[Len(nextQueue')] = meetingPoint'
            /\ meetingPoint' \in newA \cup newB
            /\ (newA \cup newB) \cap (rest \ {meetingPoint'}) = {}
            /\ \A i \in (Len(spamNotes) + 1)..Len(spamNotes') :
                  IndexOf(neighbors, spamNotes'[i].address) < at

\* C19, in every step after it: nothing of the search changes any more.
C19_FrozenStep ==
    (meetingPoint # NULL /\ nreq' = nreq) =>
        /\ meetingPoint' = meetingPoint
        /\ visitedA' = visitedA /\ visitedB' = visitedB
        /\ spamNotes' = spamNotes
        /\ step' = step
        /\ calls' = calls
        /\ txCache' = txCache

\* C19: the search stops at once when a collision that is not spam sets the
\* meeting point: no lookup, record, note or step follows, and the meeting
\* point stays.
C19_StopsAtMeeting ==
    /\ [](C19_StoppedState)
    /\ [][C19_StopStep]_vars
    /\ [][C19_FrozenStep]_vars

\* The meeting point was found from the first of two frontier addresses; the
\* second was never looked up.
C19_Witness ==
    /\ pc = "done"
    /\ SeedA # SeedB
    /\ meetingPoint # NULL
    /\ Len(currentQueue) = 2
    /\ idx = 1
    /\ currentQueue[2] \notin DOMAIN txCache

\* --------------------------------------------------------------------- C20
\* What the pages before page f hold for an address, taken row by row.
Gathered(chain, address, f) ==
    LET rows == RowsOf(chain, address)
    IN  ForEachOf(chain, <<>>,
                  SubSeq(rows, 1, Min(Len(rows), (f - 1) * PageSize)), address)

\* The fetch of the frontier address ends in this step, after a failure of
\* the provider.
FailedFetchStep == pc = "fetch" /\ nfail' > nfail

\* C20 as the specification states it: a fetch the provider failed leaves an
\* empty set in the cache, on whichever page it failed.
C20_FailureStoresEmpty ==
    [][FailedFetchStep => (curr \in DOMAIN txCache' /\ txCache'[curr] = <<>>)]_vars

\* C20 amended, the failed fetch: the cache holds what the pages before the
\* failing one gathered (nothing when the first page fails), every other
\* entry as before, and the search goes on without an error.
C20_PartialStep ==
    FailedFetchStep =>
        /\ curr \in DOMAIN txCache'
        /\ \E f \in 1..MaxPagesOf(infoA.chain) :
              /\ calls' = calls + f
              /\ (f - 1) * PageSize <= Len(RowsOf(infoA.chain, curr))
              /\ txCache'[curr] = Gathered(infoA.chain, curr, f)
              /\ f = 1 => txCache'[curr] = <<>>
        /\ \A k \in DOMAIN txCache : k \in DOMAIN txCache' /\ txCache'[k] = txCache[k]
        /\ errors' = errors
        /\ pc' \in {"lookup", "done"}

\* C20 amended, a later lookup: an address the cache holds is answered from
\* the cache, with no call to the provider and no new fetch.
C20_NoRetryStep ==
    (pc = "lookup" /\ curr \in DOMAIN txCache) =>
        /\ calls' = calls
        /\ nfail' = nfail
        /\ txCache' = txCache
        /\ pc' # "fetch"

\* C20 amended: a failed fetch stores and returns the set gathered from the
\* pages before the failure (empty only when the first page fails), and a
\* later lookup of the address is answered from the cache without a retry.
C20_FailureStoresPartial ==
    /\ [][C20_PartialStep]_vars
    /\ [][C20_NoRetryStep]_vars

\* A second request looks up a seed whose fetch failed on its second page:
\* the cache holds a set that is neither empty nor whole.
C20_Witness ==
    /\ pc = "lookup"
    /\ nreq = 2
    /\ nfail = 0
    /\ curr \in DOMAIN txCache
    /\ txCache[curr] # <<>>
    /\ txCache[curr] # CompleteLookup(curr)

\* --------------------------------------------------------------------- C21
\* The chain an address belongs to, as the program classifies it.
OwnChain(k) == identifyWallet(k).chain

\* The two seeds of the request classify to the same chain.
SameChainSeeds == OwnChain(addrA) = OwnChain(addrB)

\* Every fetch under way asks the provider of the chain of the address it
\* fetches.
C21_OwnSource == pc = "fetch" => infoA.chain = OwnChain(curr)

\* As long as no provider has failed, every entry is what the provider of the
\* address's own chain lists for it.
C21_OwnHistory ==
    (nreq = 1 /\ nfail = 0) =>
        \A k \in DOMAIN txCache :
            txCache[k] = FetchTransfers(ledger, k, OwnChain(k), 0).connections

\* C21 as the specification states it: every cache entry holds a result
\* fetched from the Transfer Source of the address's own chain, whichever
\* search looked the address up first; a search whose seeds classify to
\* different chains leaves no entry of the other chain's provider behind.
C21_OwnChainEntries == C21_OwnSource /\ C21_OwnHistory
====
